---- MODULE Spec2Model ----
(***************************************************************************)
(* Mumble (src/mumble.py): the recording / transcription session controller*)
(* as the code implements it with module globals and threads.              *)
(*                                                                         *)
(* Threads:                                                                *)
(*   0            the hotkey thread of the keyboard library; it runs       *)
(*                toggle_recording and cancel_recording one at a time      *)
(*   i in Sessions (pc[i])  the threading.Timer thread armed by session i, *)
(*                which runs _timeout_cancel                               *)
(*   w in Sessions (wpc[w]) the thread spawned by the manual stop of       *)
(*                session w, which runs stop_recording_and_transcribe      *)
(*   audio_callback(s)      the PortAudio callback of stream s             *)
(*                                                                         *)
(* A step groups the statements between two accesses to shared globals     *)
(* that another thread can interleave with; input_stream.stop() and        *)
(* input_stream.close() are one step, and so are the three statements that *)
(* create, daemonize and start the timer.  Session, stream, timer and      *)
(* worker all carry the number of the session that created them.           *)
(***************************************************************************)
EXTENDS Integers, Sequences, FiniteSets, TLC

MaxSessions == 2
MaxChunks == 1
MaxQuitSessions == 1
MaxLen == 6

Sessions == 1..MaxSessions
HK == 0
CancelThreads == {HK} \cup Sessions

VARIABLES
    recording,          \* global recording (line 126)
    audio_chunks,       \* global audio_chunks (line 127), a list of blocks
    last_transcription, \* global last_transcription (line 128); <<>> is None
    input_stream,       \* global input_stream (line 133); 0 is None
    recording_timer,    \* global recording_timer (line 136); 0 is None
    tray,               \* what update_tray last showed: TRUE is "Recording..."
    stream,             \* state of the sd.InputStream opened by each session
    timer,              \* state of the threading.Timer armed by each session
    pc,                 \* position of the hotkey thread (0) and of each timer thread
    wpc,                \* position of each stop_recording_and_transcribe thread
    waudio,             \* audio_np of each worker
    wout,               \* how each worker ended
    clipboard,          \* system clipboard (pyperclip); <<>> is "not written"
    cue,                \* the last winsound.Beep cue played
    hk_last,            \* how the last hotkey handler ended
    cur,                \* number of sessions started so far (the current session)
    captured,           \* per session: the number of blocks appended to its buffer
    teardown,           \* per session: the paths that passed their guard to end it
    engineIn,           \* per worker: the audio it passed to model.transcribe
    pasteOut,           \* per worker: the text it pasted
    shutdown_event,     \* global shutdown_event (line 135): TRUE is "set"
    running,            \* TRUE until main returns and the process exits
    hk_text,            \* the argument text of paste_text called by repaste
    repasted,           \* the text of the last paste chord sent by repaste
    raw_text,           \* the joined segment texts the engine returned (line 283)
    text,               \* the local text after lines 283-293
    kind                \* what lines 285-304 do with text

vars == <<recording, audio_chunks, last_transcription, input_stream,
          recording_timer, tray, stream, timer, pc, wpc, waudio, wout,
          clipboard, cue, hk_last, cur, captured, teardown, engineIn, pasteOut,
          shutdown_event, running, hk_text, repasted, raw_text, text, kind>>

globals == <<recording, audio_chunks, last_transcription, input_stream,
             recording_timer, tray, stream, timer, clipboard, cue>>

ghosts == <<cur, captured, teardown>>

workerVars == <<wpc, waudio, wout, engineIn, pasteOut>>

mainVars == <<shutdown_event, running>>

repasteVars == <<hk_text, repasted>>

textVars == <<raw_text, text, kind>>

others == <<mainVars, repasteVars, textVars>>

None == 0

Constructed ==
    /\ recording = FALSE
    /\ audio_chunks = <<>>
    /\ last_transcription = <<>>
    /\ input_stream = None
    /\ recording_timer = None
    /\ tray = FALSE
    /\ stream = [s \in Sessions |-> "none"]
    /\ timer = [s \in Sessions |-> "none"]
    /\ pc = [t \in CancelThreads |-> "idle"]
    /\ wpc = [w \in Sessions |-> "none"]
    /\ waudio = [w \in Sessions |-> <<>>]
    /\ wout = [w \in Sessions |-> "none"]
    /\ clipboard = <<>>
    /\ cue = "ready"
    /\ hk_last = "none"
    /\ cur = 0
    /\ captured = [s \in Sessions |-> 0]
    /\ teardown = [s \in Sessions |-> {}]
    /\ engineIn = [w \in Sessions |-> <<>>]
    /\ pasteOut = [w \in Sessions |-> <<>>]
    /\ shutdown_event = FALSE
    /\ running = TRUE
    /\ hk_text = <<>>
    /\ repasted = <<>>
    /\ text = <<>>
    /\ kind = "none"

Init ==
    /\ Constructed
    /\ raw_text = <<>>

(* threading.Timer.cancel(): sets the finished event; it stops a timer that *)
(* is still waiting and does nothing to one whose function already runs.   *)
TimerCancel(tm, t) ==
    IF t # None /\ tm[t] = "armed" THEN [tm EXCEPT ![t] = "cancelled"] ELSE tm

(* sd.InputStream.stop() then .close(), both with ignore_errors=True *)
StreamStopClose(st, s) == [st EXCEPT ![s] = "closed"]

(* where a thread goes when its handler returns or raises: a timer or      *)
(* worker thread ends, the hotkey thread takes the next hotkey             *)
Return(self) == IF self = HK THEN "idle" ELSE "done"
Raise(self) == IF self = HK THEN "idle" ELSE "crashed"

(* how the hotkey handler ended; the timer threads leave it alone *)
Ends(self, how) == hk_last' = IF self = HK THEN how ELSE hk_last

--------------------------------------------------------------------------
(* The session whose start_recording created the list audio_chunks names:  *)
(* line 240 runs after line 366, so until then it is the previous one.     *)
Owner == IF pc[HK] = "t_clear" THEN cur - 1 ELSE cur

(* audio_callback, lines 229-234: a block is <<stream, session>>, the       *)
(* stream that delivered it and the session whose buffer it went to        *)
audio_callback(s) ==
    /\ stream[s] = "active"
    /\ recording
    /\ Len(audio_chunks) < MaxChunks
    /\ audio_chunks' = Append(audio_chunks, <<s, Owner>>)
    /\ captured' = [captured EXCEPT ![Owner] = @ + 1]
    /\ UNCHANGED <<recording, last_transcription, input_stream, recording_timer,
                   tray, stream, timer, clipboard, cue, pc, hk_last, cur, teardown>>
    /\ UNCHANGED workerVars
    /\ UNCHANGED others

--------------------------------------------------------------------------
(* toggle_recording, lines 361-381, and start_recording, lines 237-254 *)

(* line 365: if not recording *)
toggle_test ==
    /\ pc[HK] = "idle"
    /\ recording \/ cur < MaxSessions
    /\ pc' = [pc EXCEPT ![HK] = IF ~recording THEN "t_start" ELSE "s_timer"]
    /\ UNCHANGED <<globals, ghosts, hk_last>>
    /\ UNCHANGED workerVars
    /\ UNCHANGED others

(* lines 366-369: recording = True; Beep(1000, 150); update_tray(True) *)
toggle_start ==
    /\ pc[HK] = "t_start"
    /\ recording' = TRUE
    /\ cue' = "start"
    /\ tray' = TRUE
    /\ cur' = cur + 1
    /\ pc' = [pc EXCEPT ![HK] = "t_clear"]
    /\ UNCHANGED <<audio_chunks, last_transcription, input_stream, recording_timer,
                   stream, timer, clipboard, hk_last, captured, teardown>>
    /\ UNCHANGED workerVars
    /\ UNCHANGED others

(* line 240: audio_chunks = [] *)
start_clear ==
    /\ pc[HK] = "t_clear"
    /\ audio_chunks' = <<>>
    /\ pc' = [pc EXCEPT ![HK] = "t_open"]
    /\ UNCHANGED <<recording, last_transcription, input_stream, recording_timer,
                   tray, stream, timer, clipboard, cue, hk_last, ghosts>>
    /\ UNCHANGED workerVars
    /\ UNCHANGED others

(* line 252: input_stream = sd.InputStream of kwargs *)
start_open ==
    /\ pc[HK] = "t_open"
    /\ input_stream' = cur
    /\ stream' = [stream EXCEPT ![cur] = "created"]
    /\ pc' = [pc EXCEPT ![HK] = "t_begin"]
    /\ UNCHANGED <<recording, audio_chunks, last_transcription, recording_timer,
                   tray, timer, clipboard, cue, hk_last, ghosts>>
    /\ UNCHANGED workerVars
    /\ UNCHANGED others

(* line 252 when the device is unavailable: sd.InputStream raises *)
start_open_fails ==
    /\ pc[HK] = "t_open"
    /\ pc' = [pc EXCEPT ![HK] = Raise(HK)]
    /\ Ends(HK, "start_failed")
    /\ UNCHANGED <<globals, ghosts>>
    /\ UNCHANGED workerVars
    /\ UNCHANGED others

(* line 253: input_stream.start(), on the global as it is now: None has no *)
(* start(), and PortAudio refuses to start a closed stream                 *)
start_begin ==
    /\ pc[HK] = "t_begin"
    /\ IF input_stream # None /\ stream[input_stream] = "created"
       THEN /\ stream' = [stream EXCEPT ![input_stream] = "active"]
            /\ pc' = [pc EXCEPT ![HK] = "t_timer"]
            /\ UNCHANGED hk_last
       ELSE /\ pc' = [pc EXCEPT ![HK] = Raise(HK)]
            /\ Ends(HK, "start_failed")
            /\ UNCHANGED stream
    /\ UNCHANGED <<recording, audio_chunks, last_transcription, input_stream,
                   recording_timer, tray, timer, clipboard, cue, ghosts>>
    /\ UNCHANGED workerVars
    /\ UNCHANGED others

(* lines 371-373: recording_timer = Timer(MAX_DURATION, _timeout_cancel); start *)
toggle_arm ==
    /\ pc[HK] = "t_timer"
    /\ timer' = [timer EXCEPT ![cur] = "armed"]
    /\ recording_timer' = cur
    /\ pc' = [pc EXCEPT ![HK] = Return(HK)]
    /\ Ends(HK, "started")
    /\ UNCHANGED <<recording, audio_chunks, last_transcription, input_stream,
                   tray, stream, clipboard, cue, ghosts>>
    /\ UNCHANGED workerVars
    /\ UNCHANGED others

(* lines 375-377: if recording_timer is not None: cancel; recording_timer = None *)
toggle_disarm ==
    /\ pc[HK] = "s_timer"
    /\ timer' = TimerCancel(timer, recording_timer)
    /\ recording_timer' = None
    /\ pc' = [pc EXCEPT ![HK] = "s_rec"]
    /\ UNCHANGED <<recording, audio_chunks, last_transcription, input_stream,
                   tray, stream, clipboard, cue, hk_last, ghosts>>
    /\ UNCHANGED workerVars
    /\ UNCHANGED others

(* lines 378-380: recording = False; Beep(500, 150) *)
toggle_stop ==
    /\ pc[HK] = "s_rec"
    /\ recording' = FALSE
    /\ cue' = "stop"
    /\ teardown' = [teardown EXCEPT ![cur] = @ \cup {<<"stop", HK>>}]
    /\ pc' = [pc EXCEPT ![HK] = "s_spawn"]
    /\ UNCHANGED <<audio_chunks, last_transcription, input_stream, recording_timer,
                   tray, stream, timer, clipboard, hk_last, cur, captured>>
    /\ UNCHANGED workerVars
    /\ UNCHANGED others

(* line 381: threading.Thread(target=stop_recording_and_transcribe).start() *)
toggle_spawn ==
    /\ pc[HK] = "s_spawn"
    /\ wpc' = [wpc EXCEPT ![cur] = "w_if"]
    /\ pc' = [pc EXCEPT ![HK] = Return(HK)]
    /\ Ends(HK, "stopped")
    /\ UNCHANGED <<globals, ghosts, waudio, wout, engineIn, pasteOut>>
    /\ UNCHANGED others

toggle_recording ==
    \/ toggle_test
    \/ toggle_start
    \/ toggle_disarm
    \/ toggle_stop
    \/ toggle_spawn
    \/ toggle_arm

start_recording ==
    \/ start_clear
    \/ start_open
    \/ start_begin

--------------------------------------------------------------------------
(* cancel_recording, lines 340-352, and stop_stream, lines 330-337, run by *)
(* the hotkey thread (cancel hotkey) or by a timer thread (_timeout_cancel)*)

(* the cancel hotkey: keyboard.add_hotkey(CANCEL_HOTKEY, cancel_recording) *)
cancel_hotkey ==
    /\ pc[HK] = "idle"
    /\ pc' = [pc EXCEPT ![HK] = "c_check"]
    /\ UNCHANGED <<globals, ghosts, hk_last>>
    /\ UNCHANGED workerVars
    /\ UNCHANGED others

(* _timeout_cancel, lines 355-358: the timer's wait ended before cancel() *)
timeout_cancel(i) ==
    /\ timer[i] = "armed"
    /\ timer' = [timer EXCEPT ![i] = "fired"]
    /\ pc' = [pc EXCEPT ![i] = "c_check"]
    /\ UNCHANGED <<recording, audio_chunks, last_transcription, input_stream,
                   recording_timer, tray, stream, clipboard, cue, hk_last, ghosts>>
    /\ UNCHANGED workerVars
    /\ UNCHANGED others

(* cancel_recording without its guard: the teardown runs whatever the flag *)
cancel_check_unguarded(self) ==
    /\ pc[self] = "c_check"
    /\ pc' = [pc EXCEPT ![self] = "c_timer"]
    /\ teardown' = [teardown EXCEPT ![cur] = @ \cup
           {IF self = HK THEN <<"cancel", HK>> ELSE <<"timeout", self>>}]
    /\ UNCHANGED <<globals, cur, captured, hk_last>>
    /\ UNCHANGED workerVars
    /\ UNCHANGED others

(* lines 343-344: if not recording: return *)
cancel_check(self) ==
    /\ pc[self] = "c_check"
    /\ IF ~recording
       THEN /\ pc' = [pc EXCEPT ![self] = Return(self)]
            /\ Ends(self, "cancel_noop")
            /\ UNCHANGED teardown
       ELSE /\ pc' = [pc EXCEPT ![self] = "c_timer"]
            /\ teardown' = [teardown EXCEPT ![cur] = @ \cup
                   {IF self = HK THEN <<"cancel", HK>> ELSE <<"timeout", self>>}]
            /\ UNCHANGED hk_last
    /\ UNCHANGED <<globals, cur, captured>>
    /\ UNCHANGED workerVars
    /\ UNCHANGED others

(* lines 345-347 *)
cancel_disarm(self) ==
    /\ pc[self] = "c_timer"
    /\ timer' = TimerCancel(timer, recording_timer)
    /\ recording_timer' = None
    /\ pc' = [pc EXCEPT ![self] = "c_rec"]
    /\ UNCHANGED <<recording, audio_chunks, last_transcription, input_stream,
                   tray, stream, clipboard, cue, hk_last, ghosts>>
    /\ UNCHANGED workerVars
    /\ UNCHANGED others

(* stop_stream line 333: recording = False *)
stop_stream_flag(self) ==
    /\ pc[self] = "c_rec"
    /\ recording' = FALSE
    /\ pc' = [pc EXCEPT ![self] = "c_if"]
    /\ UNCHANGED <<audio_chunks, last_transcription, input_stream, recording_timer,
                   tray, stream, timer, clipboard, cue, hk_last, ghosts>>
    /\ UNCHANGED workerVars
    /\ UNCHANGED others

(* stop_stream line 334: if input_stream *)
stop_stream_test(self) ==
    /\ pc[self] = "c_if"
    /\ pc' = [pc EXCEPT ![self] = IF input_stream # None THEN "c_stop" ELSE "c_clear"]
    /\ UNCHANGED <<globals, ghosts, hk_last>>
    /\ UNCHANGED workerVars
    /\ UNCHANGED others

(* stop_stream lines 335-336: input_stream.stop(); input_stream.close() on  *)
(* the global as it is now; None has no stop() and raises AttributeError   *)
stop_stream_close(self) ==
    /\ pc[self] = "c_stop"
    /\ IF input_stream # None
       THEN /\ stream' = StreamStopClose(stream, input_stream)
            /\ pc' = [pc EXCEPT ![self] = "c_none"]
            /\ UNCHANGED hk_last
       ELSE /\ pc' = [pc EXCEPT ![self] = Raise(self)]
            /\ Ends(self, "cancel_failed")
            /\ UNCHANGED stream
    /\ UNCHANGED <<recording, audio_chunks, last_transcription, input_stream,
                   recording_timer, tray, timer, clipboard, cue, ghosts>>
    /\ UNCHANGED workerVars
    /\ UNCHANGED others

(* stop_stream line 337: input_stream = None *)
stop_stream_none(self) ==
    /\ pc[self] = "c_none"
    /\ input_stream' = None
    /\ pc' = [pc EXCEPT ![self] = "c_clear"]
    /\ UNCHANGED <<recording, audio_chunks, last_transcription, recording_timer,
                   tray, stream, timer, clipboard, cue, hk_last, ghosts>>
    /\ UNCHANGED workerVars
    /\ UNCHANGED others

(* lines 349-352: audio_chunks = []; update_tray(False); log; Beep(300, 200) *)
cancel_discard(self) ==
    /\ pc[self] = "c_clear"
    /\ audio_chunks' = <<>>
    /\ tray' = FALSE
    /\ cue' = "cancelled"
    /\ pc' = [pc EXCEPT ![self] = Return(self)]
    /\ Ends(self, "cancelled")
    /\ UNCHANGED <<recording, last_transcription, input_stream, recording_timer,
                   stream, timer, clipboard, ghosts>>
    /\ UNCHANGED workerVars
    /\ UNCHANGED others

stop_stream(self) ==
    \/ stop_stream_flag(self)
    \/ stop_stream_test(self)
    \/ stop_stream_close(self)
    \/ stop_stream_none(self)

cancel_recording(self) ==
    \/ cancel_check(self)
    \/ cancel_disarm(self)
    \/ stop_stream(self)
    \/ cancel_discard(self)

--------------------------------------------------------------------------
(* The text of a transcription, lines 283-298.  A text is a sequence of    *)
(* one-character strings.                                                  *)

Digits == {"0", "1", "2", "3", "4", "5", "6", "7", "8", "9"}
Whitespace == {" ", "\t", "\n"}
Lowercase == <<"a", "b", "c", "d", "e", "f", "g", "h", "i", "j", "k", "l", "m",
               "n", "o", "p", "q", "r", "s", "t", "u", "v", "w", "x", "y", "z">>
Uppercase == <<"A", "B", "C", "D", "E", "F", "G", "H", "I", "J", "K", "L", "M",
               "N", "O", "P", "Q", "R", "S", "T", "U", "V", "W", "X", "Y", "Z">>

(* str.lower() *)
LowerChar(c) ==
    IF \E k \in 1..Len(Uppercase) : Uppercase[k] = c
    THEN Lowercase[CHOOSE k \in 1..Len(Uppercase) : Uppercase[k] = c]
    ELSE c
Lower(s) == [k \in 1..Len(s) |-> LowerChar(s[k])]

(* str.strip(chars): drops the leading and the trailing characters in chars *)
RECURSIVE LStrip(_, _)
LStrip(s, chars) ==
    IF s # <<>> /\ Head(s) \in chars THEN LStrip(Tail(s), chars) ELSE s
RECURSIVE RStrip(_, _)
RStrip(s, chars) ==
    IF s # <<>> /\ s[Len(s)] \in chars
    THEN RStrip(SubSeq(s, 1, Len(s) - 1), chars)
    ELSE s
Strip(s, chars) == RStrip(LStrip(s, chars), chars)

(* line 290: re.sub(r'(?<=\d) (?=\d)', '', text), scanning s from position i: *)
(* a space is dropped when the characters of s before and after it are     *)
(* digits (the lookarounds read s, not the output)                         *)
RECURSIVE SubDigitGap(_, _)
SubDigitGap(s, i) ==
    IF i > Len(s) THEN <<>>
    ELSE IF /\ s[i] = " "
            /\ i > 1 /\ s[i - 1] \in Digits
            /\ i < Len(s) /\ s[i + 1] \in Digits
         THEN SubDigitGap(s, i + 1)
         ELSE <<s[i]>> \o SubDigitGap(s, i + 1)

(* the position after the run of spaces that starts at position i of s *)
RECURSIVE RunEnd(_, _)
RunEnd(s, i) == IF i <= Len(s) /\ s[i] = " " THEN RunEnd(s, i + 1) ELSE i

(* line 293: re.sub(r' {2,}', ' ', text), scanning s from position i: a     *)
(* greedy match of two or more spaces is replaced by one space             *)
RECURSIVE SubSpaceRuns(_, _)
SubSpaceRuns(s, i) ==
    IF i > Len(s) THEN <<>>
    ELSE IF s[i] = " " /\ i < Len(s) /\ s[i + 1] = " "
         THEN <<" ">> \o SubSpaceRuns(s, RunEnd(s, i))
         ELSE <<s[i]>> \o SubSpaceRuns(s, i + 1)

(* the two substitutions the other way round *)
PostProcess_collapse_first(raw) ==
    SubDigitGap(SubSpaceRuns(Strip(raw, Whitespace), 1), 1)

(* lines 283-293: strip, then the digit substitution, then the space one *)
PostProcess(raw) ==
    SubSpaceRuns(SubDigitGap(Strip(raw, Whitespace), 1), 1)

ShowHelp == <<"s", "h", "o", "w", " ", "h", "e", "l", "p">>

(* what the segments of model.transcribe can join to: nothing but spaces,  *)
(* the voice command as a sentence, a dictation                            *)
EngineTexts ==
    { <<" ">>,
      <<"S", "h", "o", "w", " ", "h", "e", "l", "p", ".">>,
      <<"1", " ", "1", " ", " ", "a">> }

(* lines 285-304: what the worker does with the text *)
Classify(raw) ==
    IF Strip(raw, Whitespace) = <<>> THEN "empty"
    ELSE IF Lower(Strip(PostProcess(raw), {".", ",", " "})) = ShowHelp
         THEN "command"
         ELSE "text"

(* what the worker can do with what model.transcribe returns *)
EngineResults == {Classify(raw) : raw \in EngineTexts}


--------------------------------------------------------------------------
(* stop_recording_and_transcribe, lines 257-304, and paste_text, 307-317 *)

(* line 261: if input_stream *)
worker_test(w) ==
    /\ wpc[w] = "w_if"
    /\ wpc' = [wpc EXCEPT ![w] = IF input_stream # None THEN "w_stop" ELSE "w_tray"]
    /\ UNCHANGED <<globals, pc, hk_last, ghosts, waudio, wout, engineIn, pasteOut>>
    /\ UNCHANGED others

(* lines 262-263: input_stream.stop(); input_stream.close() *)
worker_close(w) ==
    /\ wpc[w] = "w_stop"
    /\ IF input_stream # None
       THEN /\ stream' = StreamStopClose(stream, input_stream)
            /\ wpc' = [wpc EXCEPT ![w] = "w_none"]
            /\ UNCHANGED wout
       ELSE /\ wpc' = [wpc EXCEPT ![w] = "crashed"]
            /\ wout' = [wout EXCEPT ![w] = "error"]
            /\ UNCHANGED stream
    /\ UNCHANGED <<recording, audio_chunks, last_transcription, input_stream,
                   recording_timer, tray, timer, clipboard, cue, pc, hk_last,
                   ghosts, waudio, engineIn, pasteOut>>
    /\ UNCHANGED others

(* line 264: input_stream = None *)
worker_none(w) ==
    /\ wpc[w] = "w_none"
    /\ input_stream' = None
    /\ wpc' = [wpc EXCEPT ![w] = "w_tray"]
    /\ UNCHANGED <<recording, audio_chunks, last_transcription, recording_timer,
                   tray, stream, timer, clipboard, cue, pc, hk_last, ghosts,
                   waudio, wout, engineIn, pasteOut>>
    /\ UNCHANGED others

(* lines 266-270: update_tray(False); if not audio_chunks: return *)
worker_empty(w) ==
    /\ wpc[w] = "w_tray"
    /\ tray' = FALSE
    /\ IF audio_chunks = <<>>
       THEN /\ wpc' = [wpc EXCEPT ![w] = "done"]
            /\ wout' = [wout EXCEPT ![w] = "no_audio"]
       ELSE /\ wpc' = [wpc EXCEPT ![w] = "w_concat"]
            /\ UNCHANGED wout
    /\ UNCHANGED <<recording, audio_chunks, last_transcription, input_stream,
                   recording_timer, stream, timer, clipboard, cue, pc, hk_last,
                   ghosts, waudio, engineIn, pasteOut>>
    /\ UNCHANGED others

(* lines 272-282: np.concatenate(audio_chunks) on the global as it is now   *)
(* (ValueError on an empty list), resample, and the call of model.transcribe*)
worker_concat(w) ==
    /\ wpc[w] = "w_concat"
    /\ IF audio_chunks # <<>>
       THEN /\ waudio' = [waudio EXCEPT ![w] = audio_chunks]
            /\ engineIn' = [engineIn EXCEPT ![w] = audio_chunks]
            /\ wpc' = [wpc EXCEPT ![w] = "w_engine"]
            /\ UNCHANGED wout
       ELSE /\ wpc' = [wpc EXCEPT ![w] = "crashed"]
            /\ wout' = [wout EXCEPT ![w] = "error"]
            /\ UNCHANGED <<waudio, engineIn>>
    /\ UNCHANGED <<globals, pc, hk_last, ghosts, pasteOut>>
    /\ UNCHANGED others

(* an engine call that neither returns nor raises *)
worker_transcribe_hangs(w) ==
    /\ wpc[w] = "w_engine"
    /\ UNCHANGED vars

(* a worker that caches the voice command as if it were a dictation *)
worker_transcribe_command_cached(w) ==
    /\ wpc[w] = "w_engine"
    /\ \E result \in {"raise"} \cup EngineResults :
        /\ wpc' = [wpc EXCEPT ![w] =
                     CASE result = "raise" -> "crashed"
                       [] result = "text" -> "w_paste"
                       [] OTHER -> "done"]
        /\ wout' = [wout EXCEPT ![w] =
                     CASE result = "raise" -> "error"
                       [] result = "text" -> @
                       [] OTHER -> result]
        /\ last_transcription' =
              IF result \in {"text", "command"} THEN waudio[w]
              ELSE last_transcription
    /\ UNCHANGED <<recording, audio_chunks, input_stream, recording_timer, tray,
                   stream, timer, clipboard, cue, pc, hk_last, ghosts,
                   waudio, engineIn, pasteOut>>
    /\ UNCHANGED others

(* a worker that caches the text before the engine has returned it *)
worker_transcribe_caching(w) ==
    /\ wpc[w] = "w_engine"
    /\ \E result \in {"raise"} \cup EngineResults :
        /\ wpc' = [wpc EXCEPT ![w] =
                     CASE result = "raise" -> "crashed"
                       [] result = "text" -> "w_paste"
                       [] OTHER -> "done"]
        /\ wout' = [wout EXCEPT ![w] =
                     CASE result = "raise" -> "error"
                       [] result = "text" -> @
                       [] OTHER -> result]
        /\ last_transcription' =
              IF result \in {"text", "raise"} THEN waudio[w]
              ELSE last_transcription
    /\ UNCHANGED <<recording, audio_chunks, input_stream, recording_timer, tray,
                   stream, timer, clipboard, cue, pc, hk_last, ghosts,
                   waudio, engineIn, pasteOut>>
    /\ UNCHANGED others

(* lines 282-303: model.transcribe returns segments or raises; the text is *)
(* empty, the voice command, or a text, which is cached in                 *)
(* last_transcription.  The text of a recording is named by the audio it   *)
(* was transcribed from.                                                   *)
worker_transcribe(w) ==
    /\ wpc[w] = "w_engine"
    /\ \E result \in {"raise"} \cup EngineResults :
        /\ wpc' = [wpc EXCEPT ![w] =
                     CASE result = "raise" -> "crashed"
                       [] result = "text" -> "w_paste"
                       [] OTHER -> "done"]
        /\ wout' = [wout EXCEPT ![w] =
                     CASE result = "raise" -> "error"
                       [] result = "text" -> @
                       [] OTHER -> result]
        /\ last_transcription' =
              IF result = "text" THEN waudio[w] ELSE last_transcription
    /\ UNCHANGED <<recording, audio_chunks, input_stream, recording_timer, tray,
                   stream, timer, clipboard, cue, pc, hk_last, ghosts,
                   waudio, engineIn, pasteOut>>
    /\ UNCHANGED others

(* paste_text, lines 307-317, called at line 304 with the local text *)
paste_text(w) ==
    /\ wpc[w] = "w_paste"
    /\ clipboard' = waudio[w]
    /\ pasteOut' = [pasteOut EXCEPT ![w] = waudio[w]]
    /\ wpc' = [wpc EXCEPT ![w] = "done"]
    /\ wout' = [wout EXCEPT ![w] = "pasted"]
    /\ UNCHANGED <<recording, audio_chunks, last_transcription, input_stream,
                   recording_timer, tray, stream, timer, cue, pc, hk_last, ghosts,
                   waudio, engineIn>>
    /\ UNCHANGED others

stop_recording_and_transcribe(w) ==
    \/ worker_test(w)
    \/ worker_close(w)
    \/ worker_none(w)
    \/ worker_empty(w)
    \/ worker_concat(w)
    \/ worker_transcribe(w)
    \/ paste_text(w)

--------------------------------------------------------------------------
Next ==
    \/ toggle_recording
    \/ start_recording
    \/ cancel_hotkey
    \/ \E i \in Sessions : timeout_cancel(i)
    \/ \E self \in CancelThreads : cancel_recording(self)
    \/ \E w \in Sessions : stop_recording_and_transcribe(w)
    \/ \E s \in Sessions : audio_callback(s)

Spec == Init /\ [][Next]_vars

(* the same program on a machine whose capture device can fail to open *)
NextDevice ==
    \/ Next
    \/ start_open_fails

SpecDevice == Init /\ [][NextDevice]_vars

--------------------------------------------------------------------------
(* Shutdown: quit_app (lines 384-387), quit_from_tray (lines 188-191) and  *)
(* the end of main (lines 466-476).                                        *)

(* quit_app, a hotkey handler: logs and sets the event *)
quit_app ==
    /\ pc[HK] = "idle"
    /\ shutdown_event' = TRUE
    /\ hk_last' = "quit"
    /\ UNCHANGED <<globals, pc, ghosts, workerVars, running, repasteVars, textVars>>

(* quit_from_tray, run by the tray thread whenever the menu item is chosen *)
quit_from_tray ==
    /\ ~shutdown_event
    /\ shutdown_event' = TRUE
    /\ UNCHANGED <<globals, pc, hk_last, ghosts, workerVars, running,
                   repasteVars, textVars>>

(* main, lines 468-476: the wait loop sees the event, the hooks and the    *)
(* tray icon are removed and main returns.  Every other thread is a daemon *)
(* thread (lines 213, 372, 381), so the process exits with them as they    *)
(* are: nothing here reads recording, input_stream or the worker threads.  *)
main ==
    /\ running
    /\ shutdown_event
    /\ running' = FALSE
    /\ UNCHANGED <<globals, pc, hk_last, ghosts, workerVars, shutdown_event,
                   repasteVars, textVars>>

(* the threads of the process run only while the process does; shutdown   *)
(* is explored over the first MaxQuitSessions sessions                     *)
NextQuit ==
    \/ running /\ Next /\ cur' <= MaxQuitSessions
    \/ running /\ quit_app
    \/ running /\ quit_from_tray
    \/ main

SpecQuit == Init /\ [][NextQuit]_vars

--------------------------------------------------------------------------
(* The sessions, the cancel hotkey, the timeout of the first session and   *)
(* the workers under a scheduler that is fair to the worker threads: a started thread that can take a step    *)
(* eventually takes one.  A step of a worker is always possible until it   *)
(* has ended, given that model.transcribe returns or raises and that the   *)
(* modifier keys paste_text waits for (lines 310-311) are released.  The   *)
(* hotkey thread is the user's: nothing makes it take a step.              *)
NextFair ==
    \/ toggle_recording
    \/ start_recording
    \/ cancel_hotkey
    \/ timeout_cancel(1)
    \/ \E self \in {HK, 1} : cancel_recording(self)
    \/ \E w \in Sessions : stop_recording_and_transcribe(w)
    \/ \E s \in Sessions : audio_callback(s)

SpecFair ==
    /\ Init
    /\ [][NextFair]_vars
    /\ \A w \in Sessions : WF_vars(stop_recording_and_transcribe(w))

--------------------------------------------------------------------------
(* repaste, lines 320-327, a hotkey handler; its paste_text runs on the    *)
(* hotkey thread.                                                          *)

(* a repaste that gives no cue when there is nothing to paste *)
repaste_test_silent ==
    /\ pc[HK] = "idle"
    /\ IF last_transcription = <<>>
       THEN /\ hk_last' = "repaste_none"
            /\ UNCHANGED <<pc, cue>>
       ELSE /\ pc' = [pc EXCEPT ![HK] = "r_read"]
            /\ UNCHANGED <<cue, hk_last>>
    /\ UNCHANGED <<recording, audio_chunks, last_transcription, input_stream,
                   recording_timer, tray, stream, timer, clipboard>>
    /\ UNCHANGED <<ghosts, workerVars, mainVars, repasteVars, textVars>>

(* lines 322-325: if last_transcription is None: Beep(300, 200), the tone  *)
(* of the cancel cue, here the cue that there is nothing to paste          *)
repaste_test ==
    /\ pc[HK] = "idle"
    /\ IF last_transcription = <<>>
       THEN /\ cue' = "nothing_to_paste"
            /\ hk_last' = "repaste_none"
            /\ UNCHANGED pc
       ELSE /\ pc' = [pc EXCEPT ![HK] = "r_read"]
            /\ UNCHANGED <<cue, hk_last>>
    /\ UNCHANGED <<recording, audio_chunks, last_transcription, input_stream,
                   recording_timer, tray, stream, timer, clipboard>>
    /\ UNCHANGED <<ghosts, workerVars, mainVars, repasteVars, textVars>>

(* line 327: the argument of paste_text is the cache as it is now *)
repaste_read ==
    /\ pc[HK] = "r_read"
    /\ hk_text' = last_transcription
    /\ pc' = [pc EXCEPT ![HK] = "r_paste"]
    /\ UNCHANGED <<globals, hk_last, ghosts, workerVars, mainVars, repasted,
                   textVars>>

(* paste_text, lines 307-317, with the local text: once the modifier keys  *)
(* are up, the clipboard is set and ctrl+v is sent                         *)
repaste_paste ==
    /\ pc[HK] = "r_paste"
    /\ clipboard' = hk_text
    /\ repasted' = hk_text
    /\ pc' = [pc EXCEPT ![HK] = "idle"]
    /\ hk_last' = "repasted"
    /\ UNCHANGED <<recording, audio_chunks, last_transcription, input_stream,
                   recording_timer, tray, stream, timer, cue>>
    /\ UNCHANGED <<ghosts, workerVars, mainVars, hk_text, textVars>>

repaste ==
    \/ repaste_test
    \/ repaste_read
    \/ repaste_paste

(* repaste among the sessions and their workers (the cancel and timeout    *)
(* paths touch neither the cache nor the clipboard)                        *)
NextRepaste ==
    \/ toggle_recording
    \/ start_recording
    \/ \E w \in Sessions : stop_recording_and_transcribe(w)
    \/ \E s \in Sessions : audio_callback(s)
    \/ repaste

SpecRepaste == Init /\ [][NextRepaste]_vars

--------------------------------------------------------------------------
(* The text post-processing of lines 283-298 on its own, over every raw    *)
(* text of at most MaxLen characters of a digit, a letter and a space and  *)
(* over some longer examples.                                              *)

Alphabet == {"1", "a", " "}

Examples ==
    { <<"1", " ", "2", " ", "3", " ", "4">>,
      <<"h", "e", "l", "l", "o", " ", " ", " ", "w", "o", "r", "l", "d">>,
      <<" ", "S", "h", "o", "w", " ", " ", "H", "e", "l", "p", ".", " ">>,
      <<"s", "h", "o", "w", " ", "h", "e", "l", "p", "s">> }

RawInputs == UNION {[1..n -> Alphabet] : n \in 0..MaxLen} \cup Examples

InitText ==
    /\ Constructed
    /\ raw_text \in RawInputs

(* lines 283-304 applied to raw_text *)
post_process ==
    /\ kind = "none"
    /\ text' = IF Strip(raw_text, Whitespace) = <<>> THEN <<>>
               ELSE PostProcess(raw_text)
    /\ kind' = Classify(raw_text)
    /\ UNCHANGED <<globals, pc, hk_last, ghosts, workerVars, mainVars,
                   repasteVars, raw_text>>

NextText == post_process

SpecText == InitText /\ [][NextText]_vars

--------------------------------------------------------------------------
(* The session state of the specification, read off the code's globals:   *)
(* Stopping is "a stop was requested and its worker has not yet finished". *)
InFlight(w) == wpc[w] \notin {"none", "done", "crashed"}

Workers == {w \in Sessions : InFlight(w)}

State ==
    IF recording THEN "Recording"
    ELSE IF pc[HK] = "s_spawn" \/ Workers # {} THEN "Stopping"
    ELSE "Idle"

Graph ==
    {<<"Idle", "Recording">>, <<"Recording", "Stopping">>,
     <<"Stopping", "Idle">>, <<"Recording", "Idle">>}

(* the sessions whose blocks occur in an audio buffer *)
SessionsOf(audio) == {audio[k][2] : k \in 1..Len(audio)}

(* C1: the session state moves only along Idle -> Recording -> Stopping ->  *)
(* Idle and Recording -> Idle; a session starts only from Idle.            *)
C1_StateGraph ==
    [][/\ State' # State => <<State, State'>> \in Graph
       /\ cur' # cur => State = "Idle"]_vars

(* C2: while a stop-transcribe-paste worker is in flight no step starts a   *)
(* recording, opens a stream or arms a timer.                              *)
C2_ToggleIgnoredWhileStopping ==
    [][Workers # {} =>
          /\ recording' => recording
          /\ cur' = cur
          /\ \A s \in Sessions : stream[s] = "none" => stream'[s] = "none"
          /\ \A s \in Sessions : timer[s] = "none" => timer'[s] = "none"]_vars

(* C3: recording sessions plus in-flight workers number at most one, and   *)
(* at most one worker is inside model.transcribe.                          *)
C3_AtMostOneActive ==
    /\ (IF recording THEN 1 ELSE 0) + Cardinality(Workers) <= 1
    /\ Cardinality({w \in Sessions : wpc[w] = "w_engine"}) <= 1

(* C4: every session has one outcome among stop, cancel and timeout; no     *)
(* session's audio reaches the engine through two workers; the worker of a *)
(* manually stopped session, once finished, has handed exactly the blocks  *)
(* captured during that session to the pipeline.                           *)
C4_ExactlyOneOutcome ==
    \A s \in Sessions :
        /\ Cardinality(teardown[s]) <= 1
        /\ \A w1, w2 \in Sessions :
              (w1 # w2 /\ s \in SessionsOf(engineIn[w1])) => s \notin SessionsOf(engineIn[w2])
        /\ (<<"stop", HK>> \in teardown[s] /\ wpc[s] \in {"done", "crashed"}) =>
              /\ Len(engineIn[s]) = captured[s]
              /\ SessionsOf(engineIn[s]) \subseteq {s}

(* C5: once the timer of a session that was not stopped manually has run    *)
(* its cancel to the end, that session's stream is closed, its blocks are  *)
(* gone from the buffer, the recording flag is false while it is still the *)
(* current session, and the engine was never called with its audio.        *)
TimedOut(s) ==
    /\ pc[s] = "done"
    /\ <<"timeout", s>> \in teardown[s]
    /\ <<"stop", HK>> \notin teardown[s]

C5_TimeoutAutoCancels ==
    \A s \in Sessions : TimedOut(s) =>
        /\ stream[s] = "closed"
        /\ s \notin SessionsOf(audio_chunks)
        /\ cur = s => ~recording
        /\ \A w \in Sessions : s \notin SessionsOf(engineIn[w])

(* C6: cancel_recording entered while the recording flag is false returns   *)
(* at its guard: flag, stream, timer, chunks, cached transcription, tray,  *)
(* clipboard and cue stay as they were.                                    *)
C6_CancelNoopWhenNotRecording ==
    [][\A self \in CancelThreads :
          (pc[self] = "c_check" /\ ~recording /\ pc'[self] # pc[self]) =>
             /\ pc'[self] = Return(self)
             /\ UNCHANGED <<recording, input_stream, stream, recording_timer, timer,
                            audio_chunks, last_transcription, tray, clipboard, cue>>]_vars

(* the cancel hotkey was pressed right after a cancel or a timeout had      *)
(* played its cue, and returned at the guard                               *)
C6_Witness ==
    /\ pc[HK] = "idle"
    /\ hk_last = "cancel_noop"
    /\ cue = "cancelled"

(* session s was ended by the cancel hotkey or by its own timer, and by no  *)
(* manual stop                                                             *)
Discarded(s) ==
    /\ <<"cancel", HK>> \in teardown[s] \/ <<"timeout", s>> \in teardown[s]
    /\ <<"stop", HK>> \notin teardown[s]

(* C7: no block of a session ended by cancel or timeout reaches the engine *)
(* or is pasted, and when the cancel hotkey's handler returns after a cancel  *)
(* the stream is closed, no timer is armed, the buffer is empty and the    *)
(* flag is false.                                                          *)
C7_CancelDiscards ==
    [][/\ \A s, w \in Sessions : Discarded(s)' =>
             /\ s \notin SessionsOf(engineIn'[w])
             /\ s \notin SessionsOf(pasteOut'[w])
       /\ (pc[HK] = "c_clear" /\ pc'[HK] = "idle") =>
             /\ ~recording'
             /\ audio_chunks' = <<>>
             /\ recording_timer' = None
             /\ \A s \in Sessions : timer'[s] # "armed"
             /\ \A s \in Sessions : stream'[s] \in {"none", "closed"}]_vars

(* C8: no session is torn down both by the manual stop and by a timer.     *)
C8_OneTeardown ==
    \A s \in Sessions :
        ~(/\ <<"stop", HK>> \in teardown[s]
          /\ \E i \in Sessions : <<"timeout", i>> \in teardown[s])

(* C9: no worker is about to concatenate the chunk buffer while the        *)
(* callback of an active stream can append to it.                          *)
C9_NoReadWhileAppending ==
    \A w \in Sessions : wpc[w] = "w_concat" =>
        ~(recording /\ \E s \in Sessions : stream[s] = "active")

(* C10: every block in the buffer, and every block handed to the engine,   *)
(* was delivered by the stream of the session it was captured in.          *)
Isolated(audio) == \A k \in 1..Len(audio) : audio[k][1] = audio[k][2]

C10_BufferIsolation ==
    /\ Isolated(audio_chunks)
    /\ \A w \in Sessions : Isolated(engineIn[w])

(* C11: shutdown leaves the system quiescent: once main has returned, no   *)
(* session is recording (a recording one was cancelled first), no worker   *)
(* is in flight and no audio stream is open.                               *)
C11_ShutdownQuiescent ==
    ~running =>
        /\ ~recording
        /\ Workers = {}
        /\ \A s \in Sessions : stream[s] \notin {"created", "active"}

(* C12: when opening or starting the stream fails in toggle() from Idle,   *)
(* the session aborts back to Idle: once the failed handler has returned   *)
(* the recording flag is false, no timer is armed, no stream is held, no   *)
(* transcription of that session was attempted, and the tray shows Idle.   *)
C12_StartFailureAborts ==
    (pc[HK] = "idle" /\ hk_last = "start_failed") =>
        /\ ~recording
        /\ recording_timer = None
        /\ input_stream = None
        /\ wpc[cur] = "none"
        /\ ~tray

(* C16, the claim's description of the post-processed text, computed by    *)
(* selecting positions: the characters of s at the positions that Keep     *)
(* accepts, in order                                                       *)
Select(s, Keep(_)) ==
    LET at == SelectSeq([k \in 1..Len(s) |-> k], Keep)
    IN  [k \in 1..Len(at) |-> s[at[k]]]

Trimmed(s) ==
    LET inside == {k \in 1..Len(s) : s[k] # " "}
    IN  Select(s, LAMBDA k : /\ \E a \in inside : a <= k
                             /\ \E b \in inside : k <= b)

BetweenDigits(s, k) ==
    /\ s[k] = " "
    /\ k > 1 /\ s[k - 1] \in Digits
    /\ k < Len(s) /\ s[k + 1] \in Digits

Described(raw) ==
    LET t == Trimmed(raw)
        u == Select(t, LAMBDA k : ~BetweenDigits(t, k))
    IN  Select(u, LAMBDA k : ~(u[k] = " " /\ k > 1 /\ u[k - 1] = " "))

(* C16: for every raw text over digits, letters and spaces the             *)
(* post-processed text is the raw text trimmed, then without each space    *)
(* that stands between two digits, then with every run of two or more      *)
(* spaces collapsed to one; "1 2 3 4" gives "1234" and "hello   world"     *)
(* gives "hello world".                                                    *)
C16_PostProcessing ==
    kind # "none" =>
        /\ text = Described(raw_text)
        /\ raw_text = <<"1", " ", "2", " ", "3", " ", "4">>
              => text = <<"1", "2", "3", "4">>
        /\ raw_text = <<"h", "e", "l", "l", "o", " ", " ", " ", "w", "o", "r", "l", "d">>
              => text = <<"h", "e", "l", "l", "o", " ", "w", "o", "r", "l", "d">>

(* a text with a space between digits and a run of spaces was processed *)
C16_Witness ==
    /\ kind = "text"
    /\ raw_text = <<"1", " ", "1", " ", " ", "a">>
    /\ text = <<"1", "1", " ", "a">>

(* the state of session s: Recording while it holds the recording flag,    *)
(* Stopping from its manual stop until its worker has ended, else Idle     *)
SessionState(s) ==
    IF s = cur /\ recording THEN "Recording"
    ELSE IF InFlight(s) \/ (s = cur /\ pc[HK] = "s_spawn") THEN "Stopping"
    ELSE "Idle"

EngineRaises(w) == wpc[w] = "w_engine" /\ wpc'[w] = "crashed"

ToggleTaken == pc[HK] = "idle" /\ pc'[HK] \in {"t_start", "s_timer"}

(* C13: when the engine call raises in the worker of session w, the        *)
(* session resolves to Idle with no paste (the clipboard is unchanged and  *)
(* w sends no paste chord, then or later) and the cached last              *)
(* transcription is unchanged; a toggle() taken afterwards in the Idle     *)
(* state is accepted and starts a new recording.                           *)
C13_EngineErrorResolves ==
    [][ /\ \A w \in Sessions :
            EngineRaises(w) =>
                /\ SessionState(w)' = "Idle"
                /\ wout'[w] = "error"
                /\ clipboard' = clipboard
                /\ last_transcription' = last_transcription
                /\ pasteOut' = pasteOut
        /\ \A w \in Sessions :
            wout[w] = "error" =>
                /\ wpc'[w] = "crashed"
                /\ pasteOut'[w] = <<>>
        /\ ((\E w \in Sessions : wout[w] = "error") /\ State = "Idle" /\ ToggleTaken)
              => pc'[HK] = "t_start"
      ]_vars

(* the engine raised in worker 1 and the next toggle started session 2 *)
C13_Witness ==
    /\ wpc[1] = "crashed"
    /\ engineIn[1] # <<>>
    /\ clipboard = <<>>
    /\ last_transcription = <<>>
    /\ wpc[2] = "none"
    /\ cur = 2
    /\ recording
    /\ hk_last = "started"

NoResult == {"no_audio", "empty", "command"}

(* C14: last_transcription is written, and the paste is made, only by a    *)
(* worker whose post-processed text is non-empty and not the voice         *)
(* command; a worker that ends with no audio, an empty transcription or    *)
(* the voice command leaves the cache and the clipboard as they are and    *)
(* sends no paste chord, then or later.                                    *)
C14_OnlyTextIsCachedAndPasted ==
    [][ /\ last_transcription' # last_transcription =>
              \E w \in Sessions :
                  /\ wpc[w] = "w_engine" /\ wpc'[w] = "w_paste"
                  /\ last_transcription' = waudio[w]
        /\ (clipboard' # clipboard \/ pasteOut' # pasteOut) =>
              \E w \in Sessions :
                  /\ wpc[w] = "w_paste" /\ wout'[w] = "pasted"
                  /\ clipboard' = waudio[w]
        /\ \A w \in Sessions :
              (wout[w] = "none" /\ wout'[w] \in NoResult) =>
                  /\ wpc'[w] = "done"
                  /\ UNCHANGED <<last_transcription, clipboard, pasteOut>>
        /\ \A w \in Sessions :
              wout[w] \in NoResult => (wpc'[w] = "done" /\ pasteOut'[w] = <<>>)
      ]_vars

(* worker 1 heard the voice command, worker 2 pasted a dictation *)
C14_Witness ==
    /\ wout[1] = "command"
    /\ pasteOut[1] = <<>>
    /\ wout[2] = "pasted"
    /\ pasteOut[2] = waudio[2]
    /\ last_transcription = waudio[2]
    /\ clipboard = waudio[2]

(* a step of repaste that found nothing to paste, and any step of repaste *)
NothingToPaste ==
    /\ pc[HK] = "idle" /\ pc'[HK] = "idle"
    /\ hk_last' = "repaste_none"
    /\ (hk_last # "repaste_none" \/ cue' # cue)

RepasteStep ==
    \/ NothingToPaste
    \/ pc'[HK] # pc[HK] /\ (pc[HK] \in {"r_read", "r_paste"} \/ pc'[HK] = "r_read")

(* C15: repaste() with no cached transcription emits the cue, leaves the   *)
(* clipboard unchanged and sends no paste chord; with a cached text T it   *)
(* sets the clipboard to T and sends the paste chord; either way it leaves *)
(* the cached transcription and the session state unchanged.               *)
C15_Repaste ==
    [][ /\ NothingToPaste =>
              /\ last_transcription = <<>>
              /\ cue' = "nothing_to_paste"
              /\ UNCHANGED <<clipboard, repasted>>
        /\ (pc[HK] # "r_read" /\ pc'[HK] = "r_read") =>
              (pc[HK] = "idle" /\ last_transcription # <<>>)
        /\ (pc[HK] = "r_read" /\ pc'[HK] # "r_read") =>
              /\ pc'[HK] = "r_paste"
              /\ hk_text' = last_transcription /\ hk_text' # <<>>
              /\ UNCHANGED <<clipboard, repasted>>
        /\ (pc[HK] = "r_paste" /\ pc'[HK] # "r_paste") =>
              /\ pc'[HK] = "idle"
              /\ hk_text # <<>>
              /\ clipboard' = hk_text /\ repasted' = hk_text
        /\ repasted' # repasted => (pc[HK] = "r_paste" /\ pc'[HK] = "idle")
        /\ RepasteStep =>
              UNCHANGED <<last_transcription, recording, input_stream,
                          recording_timer, audio_chunks, stream, timer, tray, wpc>>
      ]_vars

(* a repaste of the cached text after the clipboard had been overwritten   *)
(* by a later paste                                                        *)
C15_Witness ==
    /\ pc[HK] = "idle"
    /\ hk_last = "repasted"
    /\ repasted # <<>>
    /\ repasted = last_transcription
    /\ clipboard = repasted
    /\ \E w \in Sessions : pasteOut[w] # <<>> /\ pasteOut[w] # repasted

(* C17: the timer is live only while the state is Recording: whenever the  *)
(* recording flag is false, no timer is armed (the stop and cancel paths   *)
(* disarm it before they clear the flag).                                  *)
C17_TimerOnlyWhileRecording ==
    ~recording => \A s \in Sessions : timer[s] # "armed"

(* session s was ended by hand: by the manual stop or by the cancel hotkey *)
EndedByHand(s) == \E e \in teardown[s] : e[1] \in {"stop", "cancel"}

(* C20: a timeout callback armed for session i tears down only session i:  *)
(* once session i has been stopped or cancelled by hand and a later        *)
(* session has started, no step of the timer thread of session i stops a   *)
(* stream, discards the chunks, clears the recording flag or cancels a     *)
(* timer.                                                                  *)
C20_TimeoutOnlyOwnSession ==
    [][ \A i \in Sessions :
          (pc'[i] # pc[i] /\ EndedByHand(i) /\ cur > i) =>
              UNCHANGED <<recording, audio_chunks, stream, timer,
                          input_stream, recording_timer>>
      ]_vars

(* C19: whenever no worker is in flight, the cached last transcription is  *)
(* the text most recently pasted by a worker (the clipboard, which only    *)
(* the workers write here), in every interleaving of the workers.          *)
C19_CacheIsLastPaste ==
    Workers = {} => last_transcription = clipboard

Outcomes == {"pasted", "no_audio", "empty", "command", "error"}

Ended(w) == wpc[w] \in {"done", "crashed"} /\ wout[w] \in Outcomes

(* C18: under weak fairness of the worker threads, every session that is   *)
(* stopped by hand eventually has its worker end, with a paste, no result, *)
(* the command or an error, after which the session is Idle for good; a    *)
(* toggle() taken then with nothing else active starts a new recording.    *)
C18_WorkerTerminates ==
    /\ \A w \in Sessions :
          (wpc[w] # "none") ~> [](Ended(w) /\ SessionState(w) = "Idle")
    /\ [][ ((\E w \in Sessions : Ended(w)) /\ State = "Idle" /\ ToggleTaken)
              => pc'[HK] = "t_start" ]_vars

(* worker 1 has ended with a paste and the next toggle started session 2 *)
C18_Witness ==
    /\ wpc[1] = "done"
    /\ wout[1] = "pasted"
    /\ SessionState(1) = "Idle"
    /\ cur = 2
    /\ recording
    /\ wpc[2] = "none"
    /\ pc[HK] = "t_clear"

(* the streams that were opened and not yet stopped and closed *)
OpenStreams == {s \in Sessions : stream[s] \in {"created", "active"}}

(* C21: in every reachable state at most one audio input stream is open,   *)
(* and every open stream is the one input_stream refers to: the reference  *)
(* to a stream that has not been stopped and closed is never overwritten.  *)
C21_OneOpenStreamReferenced ==
    /\ Cardinality(OpenStreams) <= 1
    /\ \A s \in OpenStreams : input_stream = s

(* no handler is running: the hotkey thread waits for a hotkey, no timer   *)
(* thread is inside _timeout_cancel and no worker is in flight             *)
Quiescent ==
    /\ pc[HK] = "idle"
    /\ \A i \in Sessions : pc[i] \in {"idle", "done", "crashed"}
    /\ Workers = {}

(* C22: the tray indicator tracks the state: whenever the hotkey thread,   *)
(* the timer threads and the workers are quiescent, the indicator last set *)
(* by update_tray shows Recording exactly when the recording flag is true  *)
(* (a worker of an earlier session never sets it to Idle while a later     *)
(* session is recording).                                                  *)
C22_TrayTracksState ==
    Quiescent => (tray <=> recording)
====
